---- MODULE Spec2Model ----
(***************************************************************************)
(* Alert evaluation core of Stock-Price-Alerts (AlertManager, Notifier,    *)
(* StockDatabase) as a state machine.                                      *)
(*                                                                         *)
(* Time is the wall clock in whole seconds counted from a Monday 00:00:00. *)
(* The configured timezone and the system timezone are taken to coincide,  *)
(* so get_current_time() and datetime.now() read the same clock.           *)
(* A "HH:MM" string is the pair <<hour, minute>>; a dedup key string is    *)
(* the tuple of the fields it is formatted from.                           *)
(* Prices are whole numbers of hundredths; a percentage is kept in         *)
(* hundredths of a percent (6.00% is 600), which is what round(x, 2) can   *)
(* distinguish.                                                            *)
(*                                                                         *)
(* Specifications:                                                         *)
(*   Spec        monitoring cycles called at instants 30 or 60 s apart     *)
(*   SpecDays    the same cycles called half a minute or a day apart       *)
(*   SpecDriver  main.py's loop and signal handler around the cycles       *)
(*   FairDriver  the same with a fair main thread, for termination         *)
(*   SpecClient  StockAPI.get_quote with _make_request's retry loop        *)
(*   SpecStore   StockDatabase's operations in any order                   *)
(*   SpecFormat  AlertManager.format_stock_message on one quote            *)
(*   SpecCli     the CLI's add and remove on the configured watchlist      *)
(***************************************************************************)
EXTENDS Integers, Sequences, FiniteSets, TLC

\* ---------------------------------------------------------------- bounds
MaxCycles == 2
MaxFaults == 1

\* ------------------------------------------------------ program constants
DefaultApiDelay == 12
DefaultRetryCount == 3
WeekendStart == 5
PercentScale == 100
RoundDigits == 2

\* Optional values: None is the empty tuple, a value x is <<x>>
NoneVal == <<>>
Some(x) == <<x>>
Value(opt) == opt[1]
DefaultSubject == "Stock Price Alert"

\* --------------------------------------------------------------- calendar
DaySeconds == 24 * 60 * 60
Date(t) == t \div DaySeconds
Weekday(t) == Date(t) % 7
SecondOfDay(t) == t % DaySeconds
Hour(t) == SecondOfDay(t) \div 3600
Minute(t) == (SecondOfDay(t) % 3600) \div 60
\* now.strftime('%H:%M')
StrfHHMM(t) == <<Hour(t), Minute(t)>>
\* datetime.strptime(s, '%H:%M').time(), as a second of the day
StrpTime(hhmm) == hhmm[1] * 3600 + hhmm[2] * 60

\* ------------------------------------------------------------ input sets
Prices == {0, 100, 106}
\* seconds a caller lets pass between two cycles (main.py sleeps 60)
Gaps == {30, 60}
\* Friday 23:59:00
StartTime == 4 * DaySeconds + 23 * 3600 + 59 * 60
SendOutcomes == {"ok", "error"}

Rule(t, m) == [time |-> t, message |-> m]

MkConfig(w, s, pe, th, ci, only, op, cl, dbOn, ret, sms, email) ==
    [watchlist |-> w, alert_schedule |-> s,
     price_alerts |-> [enabled |-> pe, threshold_percentage |-> th,
                       check_interval |-> ci],
     market_hours |-> [only_during_market_hours |-> only,
                       open |-> op, close |-> cl],
     storage |-> [enabled |-> dbOn, retention_days |-> ret],
     notifications |-> [sms_enabled |-> sms, email_enabled |-> email,
                        include_volume |-> FALSE,
                        include_day_high_low |-> FALSE],
     rate_limiting |-> [api_delay |-> DefaultApiDelay]]

Configs ==
    { \* one symbol, a schedule rule and price alerts, both channels
      MkConfig(<<"A">>, <<Rule(<<23, 59>>, "evening")>>,
               TRUE, 500, 1, FALSE, <<9, 30>>, <<16, 0>>, TRUE, 90, TRUE, TRUE),
      \* two symbols, price alerts only (the rule's minute is never reached)
      MkConfig(<<"A", "B">>, <<Rule(<<12, 0>>, "noon")>>,
               TRUE, 700, 1, FALSE, <<9, 30>>, <<16, 0>>, TRUE, 0, TRUE, FALSE),
      \* market-hours gating, the window closing at 23:59
      MkConfig(<<"A">>, <<Rule(<<23, 59>>, "evening")>>,
               TRUE, 500, 2, TRUE, <<0, 0>>, <<23, 59>>, TRUE, 90, FALSE, TRUE),
      \* three symbols, no database, no channel enabled
      MkConfig(<<"A", "B", "C">>, <<Rule(<<23, 59>>, "evening")>>,
               TRUE, 500, 1, FALSE, <<9, 30>>, <<16, 0>>, FALSE, 90, FALSE, FALSE),
      \* empty watchlist
      MkConfig(<<>>, <<Rule(<<23, 59>>, "evening")>>,
               TRUE, 500, 1, FALSE, <<9, 30>>, <<16, 0>>, TRUE, 90, TRUE, FALSE),
      \* two rules of the same minute and one of the next, price alerts off
      MkConfig(<<"B">>,
               <<Rule(<<23, 59>>, "m1"), Rule(<<23, 59>>, "m2"),
                 Rule(<<0, 0>>, "midnight")>>,
               FALSE, 500, 1, FALSE, <<9, 30>>, <<16, 0>>, TRUE, 90, TRUE, TRUE),
      \* one symbol, a lookback of two minutes, which reaches over a cycle
      MkConfig(<<"A">>, <<Rule(<<23, 59>>, "evening")>>,
               TRUE, 500, 2, FALSE, <<9, 30>>, <<16, 0>>, TRUE, 90, TRUE, FALSE) }

VARIABLES
    cfg,                    \* Config.config, read-only at run time
    now,                    \* the wall clock
    pc,                     \* position of the single thread of control
    cycles,                 \* run_monitoring_cycle calls started so far
    faults,                 \* failures injected so far (bounded by MaxFaults)
    schedNow,               \* `now` of check_scheduled_alerts (alerts.py:112)
    ruleIdx,                \* loop position in alert_schedule
    symIdx,                 \* loop position in the watchlist
    messages,               \* `messages` of _send_watchlist_alert in this cycle
    last_scheduled_alerts,  \* AlertManager.last_scheduled_alerts
    last_price_alerts,      \* AlertManager.last_price_alerts
    db,                     \* rows of table stock_prices, in insertion order
    sent,                   \* every Notifier.notify call made so far
    lastNotify,             \* outcome of the latest Notifier.notify call
    events,                 \* fetch/save/sleep/notify/cleanup of this cycle
    lastEval,               \* the latest price-delta evaluation of a fetched quote
    cycleStart,             \* clock at the start of the latest cycle
    cycleResult,            \* how the latest run_monitoring_cycle ended
    caught,                 \* an exception reached the handler of this cycle
    cleanupLog,             \* clock of every cleanup_old_data call of a cycle
    running,                \* main.py's global `running`
    shutdown,               \* where the thread was when the signal arrived
    started,                \* clock at which main() entered its loop
    retry_count,            \* StockAPI.retry_count
    attempt,                \* `attempt` of _make_request's loop
    requests,               \* upstream reply to each request of this call
    sleeps,                 \* argument of each time.sleep of this call
    calls,                  \* get_quote calls made so far
    quote_result,           \* how the latest get_quote call ended
    lastOp,                 \* the latest operation on the store, or CLI command
    fmtIn,                  \* arguments of the latest format_stock_message
    fmtOut                  \* its result

vars == <<cfg, now, pc, cycles, faults, schedNow, ruleIdx, symIdx, messages,
          last_scheduled_alerts, last_price_alerts, db, sent, lastNotify,
          events, lastEval, cycleStart, cycleResult, caught, cleanupLog,
          running, shutdown, started, retry_count, attempt, requests, sleeps,
          calls, quote_result, lastOp, fmtIn, fmtOut>>

\* what a monitoring cycle never touches: the driver's flag, the state of a
\* single get_quote call, and the records of store and formatting calls
aside == <<running, shutdown, started, retry_count, attempt, requests, sleeps,
           calls, quote_result, lastOp, fmtIn, fmtOut>>

\* ------------------------------------------------------- config accessors
get_watchlist == cfg.watchlist
get_alert_schedule == cfg.alert_schedule
get_price_alerts_config == cfg.price_alerts
get_market_hours == cfg.market_hours
get_storage_config == cfg.storage
api_delay == cfg.rate_limiting.api_delay
\* main.py: the database object exists iff storage is enabled
database == cfg.storage.enabled

\* ------------------------------------------------------- market-hours gate
MarketHoursIgnoresWeekend(t) ==
    IF ~get_market_hours.only_during_market_hours THEN TRUE
    ELSE /\ StrpTime(get_market_hours.open) <= SecondOfDay(t)
         /\ SecondOfDay(t) <= StrpTime(get_market_hours.close)

\* AlertManager.is_market_hours: time objects compare with their seconds
is_market_hours(t) ==
    IF ~get_market_hours.only_during_market_hours THEN TRUE
    ELSE IF Weekday(t) >= WeekendStart THEN FALSE
    ELSE /\ StrpTime(get_market_hours.open) <= SecondOfDay(t)
         /\ SecondOfDay(t) <= StrpTime(get_market_hours.close)

\* run_monitoring_cycle, the early return of lines 230-234
Gated(t) ==
    /\ get_market_hours.only_during_market_hours
    /\ ~is_market_hours(t)

\* ------------------------------------------------------------- dedup keys
\* f"{alert_time}_{now.date()}"
ScheduleKey(alert_time, t) == <<alert_time, Date(t)>>
PriceKeyWithoutDate(symbol, t) == <<symbol, 0, Hour(t)>>

\* f"{symbol}_{datetime.now().strftime('%Y-%m-%d_%H')}"
PriceKey(symbol, t) == <<symbol, Date(t), Hour(t)>>

ScheduleNeverSeen(key) == FALSE

\* `alert_key in self.last_scheduled_alerts`
ScheduleSeen(key) == key \in DOMAIN last_scheduled_alerts

PriceNeverSeen(key) == FALSE

\* `alert_key in self.last_price_alerts`
PriceSeen(key) == key \in DOMAIN last_price_alerts

PutAlone(map, key, value) == [k \in {key} |-> value]

\* dict[key] = value
Put(map, key, value) ==
    [k \in DOMAIN map \cup {key} |-> IF k = key THEN value ELSE map[k]]

\* --------------------------------------------------------------- the store
Row(symbol, price, timestamp) ==
    [symbol |-> symbol, price |-> price, timestamp |-> timestamp]

\* positions of the rows of one symbol
RowsOf(rows, symbol) == {i \in 1..Len(rows) : rows[i].symbol = symbol}

\* order_by(timestamp.desc()).first(); rows of the same second were written
\* in insertion order, so the later row has the later sub-second timestamp
LastOf(rows, S) ==
    CHOOSE i \in S : \A j \in S :
        \/ rows[j].timestamp < rows[i].timestamp
        \/ (rows[j].timestamp = rows[i].timestamp /\ j <= i)

\* order_by(timestamp.asc()).first()
FirstOf(rows, S) ==
    CHOOSE i \in S : \A j \in S :
        \/ rows[j].timestamp > rows[i].timestamp
        \/ (rows[j].timestamp = rows[i].timestamp /\ j >= i)

Abs(x) == IF x < 0 THEN -x ELSE x

\* round(num / den) to the nearest whole number, ties to even (Python round)
RoundDiv(num, den) ==
    LET a == Abs(num)
        q == a \div den
        r == a % den
        m == IF 2 * r > den THEN q + 1
             ELSE IF 2 * r < den THEN q
             ELSE IF q % 2 = 0 THEN q ELSE q + 1
    IN IF num < 0 THEN -m ELSE m

\* round(((latest.price - oldest.price) / oldest.price) * 100, 2), in
\* hundredths of a percent
ChangePercent(latestPrice, oldestPrice) ==
    RoundDiv((latestPrice - oldestPrice) * PercentScale * (10 ^ RoundDigits),
             oldestPrice)

CalcOverAllRows(rows, symbol, minutes, t, ok) ==
    LET all == RowsOf(rows, symbol)
    IN IF ~ok \/ all = {} THEN NoneVal
       ELSE IF rows[FirstOf(rows, all)].price = 0 THEN NoneVal
       ELSE Some(ChangePercent(rows[LastOf(rows, all)].price,
                          rows[FirstOf(rows, all)].price))

\* StockDatabase.calculate_price_change at clock t; ok = FALSE is a storage
\* error inside the try block, answered with None
calculate_price_change(rows, symbol, minutes, t, ok) ==
    LET since == t - minutes * 60
        all == RowsOf(rows, symbol)
        win == {i \in all : rows[i].timestamp >= since}
    IN IF ~ok \/ all = {} \/ win = {} THEN NoneVal
       ELSE IF rows[FirstOf(rows, win)].price = 0 THEN NoneVal
       ELSE Some(ChangePercent(rows[LastOf(rows, all)].price,
                          rows[FirstOf(rows, win)].price))

SaveWithoutRollback(rows, quote, ok) ==
    Append(rows, Row(quote.symbol, quote.price, quote.timestamp))

\* StockDatabase.save_quote; ok = FALSE is a storage error, rolled back
save_quote(rows, quote, ok) ==
    IF ok THEN Append(rows, Row(quote.symbol, quote.price, quote.timestamp))
    ELSE rows

\* StockDatabase.get_latest_price: the record, or None
get_latest_price(rows, symbol, ok) ==
    IF ~ok \/ RowsOf(rows, symbol) = {} THEN NoneVal
    ELSE Some(rows[LastOf(rows, RowsOf(rows, symbol))])

\* the value save_quote returns
save_quote_returns(ok) == ok

\* the value cleanup_old_data returns: the row count of the DELETE, or 0
cleanup_old_data_returns(rows, retention_days, t, ok) ==
    IF ok
    THEN Cardinality({i \in DOMAIN rows :
                        rows[i].timestamp < t - retention_days * DaySeconds})
    ELSE 0

CleanupAtOrBeforeCutoff(rows, retention_days, t, ok) ==
    IF ok THEN SelectSeq(rows,
                   LAMBDA r : ~(r.timestamp <= t - retention_days * DaySeconds))
    ELSE rows

\* StockDatabase.cleanup_old_data at clock t
cleanup_old_data(rows, retention_days, t, ok) ==
    IF ok THEN SelectSeq(rows,
                   LAMBDA r : ~(r.timestamp < t - retention_days * DaySeconds))
    ELSE rows

\* ------------------------------------------------------------- formatting
\* the quote get_quote returns for a price read at clock t, the other fields
\* at the defaults of stock_api.py:103-110; amounts are in hundredths
Quote(symbol, price, t) ==
    [symbol |-> symbol, price |-> price, timestamp |-> t,
     change |-> 0, change_percent |-> "0", volume |-> 0, high |-> 0, low |-> 0]

\* two decimal digits
Digits2(n) == IF n < 10 THEN "0" \o ToString(n) ELSE ToString(n)

\* f"{x:.2f}" of an amount of c hundredths: the sign belongs to the number
Fixed2(c) ==
    (IF c < 0 THEN "-" ELSE "") \o ToString(Abs(c) \div 100) \o "."
        \o Digits2(Abs(c) % 100)

\* three decimal digits
Digits3(n) ==
    IF n < 10 THEN "00" \o ToString(n)
    ELSE IF n < 100 THEN "0" \o ToString(n) ELSE ToString(n)

RECURSIVE Grouped(_)
\* f"{n:,}" of a natural number
Grouped(n) ==
    IF n < 1000 THEN ToString(n)
    ELSE Grouped(n \div 1000) \o "," \o Digits3(n % 1000)

\* the change information of alerts.py:64-65
ChangeDetails(quote) ==
    LET change_symbol == IF quote.change >= 0 THEN "+" ELSE ""
    IN " (" \o change_symbol \o "$" \o Fixed2(quote.change) \o ", "
            \o change_symbol \o quote.change_percent \o "%)"

\* AlertManager.format_stock_message
format_stock_message(quote, include_details, notifications_config) ==
    LET message == quote.symbol \o ": $" \o Fixed2(quote.price)
        volume ==
            IF notifications_config.include_volume /\ quote.volume # 0
            THEN " | Vol: " \o Grouped(quote.volume) ELSE ""
        high_low ==
            IF /\ notifications_config.include_day_high_low
               /\ quote.high # 0 /\ quote.low # 0
            THEN " | H: $" \o Fixed2(quote.high) \o " L: $" \o Fixed2(quote.low)
            ELSE ""
    IN IF include_details
       THEN message \o ChangeDetails(quote) \o volume \o high_low
       ELSE message

\* f"{symbol}: Unable to fetch price"
UnableLine(symbol) ==
    symbol \o ": Unable to fetch price"

\* the text of a price alert (alerts.py:209-215)
PriceAlertText(symbol, price_change, check_interval, quote) ==
    <<"PRICE ALERT", symbol,
      IF Value(price_change) > 0 THEN "up" ELSE "down",
      Abs(Value(price_change)), check_interval,
      format_stock_message(quote, TRUE, cfg.notifications)>>

\* --------------------------------------------------------------- Notifier
EnabledChannels ==
    (IF cfg.notifications.sms_enabled THEN {"sms"} ELSE {})
    \cup (IF cfg.notifications.email_enabled THEN {"email"} ELSE {})

NotifyAbortsOnSmsError(smsOut, emailOut) ==
    LET sms == cfg.notifications.sms_enabled
        email == cfg.notifications.email_enabled
        abort == sms /\ smsOut = "error"
        c1 == IF sms /\ smsOut = "ok" THEN 1 ELSE 0
        c2 == IF email /\ ~abort /\ emailOut = "ok" THEN 1 ELSE 0
    IN [attempted |-> (IF sms THEN {"sms"} ELSE {})
                      \cup (IF email /\ ~abort THEN {"email"} ELSE {}),
        outcome |-> [sms |-> smsOut, email |-> emailOut],
        sent_count |-> c1 + c2, ret |-> NoneVal, raised |-> abort]

NotifyCountsAttempts(smsOut, emailOut) ==
    LET sms == cfg.notifications.sms_enabled
        email == cfg.notifications.email_enabled
    IN [attempted |-> (IF sms THEN {"sms"} ELSE {})
                      \cup (IF email THEN {"email"} ELSE {}),
        outcome |-> [sms |-> smsOut, email |-> emailOut],
        sent_count |-> (IF sms THEN 1 ELSE 0) + (IF email THEN 1 ELSE 0),
        ret |-> NoneVal, raised |-> FALSE]

\* Notifier.notify with the outcome of each channel's send; SMSNotifier.send
\* and EmailNotifier.send turn every exception into False
Notify(smsOut, emailOut) ==
    LET sms == cfg.notifications.sms_enabled
        email == cfg.notifications.email_enabled
        c1 == IF sms /\ smsOut = "ok" THEN 1 ELSE 0
        c2 == IF email /\ emailOut = "ok" THEN 1 ELSE 0
    IN [attempted |-> (IF sms THEN {"sms"} ELSE {})
                      \cup (IF email THEN {"email"} ELSE {}),
        outcome |-> [sms |-> smsOut, email |-> emailOut],
        sent_count |-> c1 + c2, ret |-> NoneVal, raised |-> FALSE]

\* outcomes a call can see: a disabled channel is never asked
ChannelOutcomes(enabled) == IF enabled THEN SendOutcomes ELSE {"off"}

NotifyFaults(smsOut, emailOut) ==
    (IF smsOut = "error" THEN 1 ELSE 0) + (IF emailOut = "error" THEN 1 ELSE 0)

\* ------------------------------------------------------------------ state
EmptyMap == [k \in {} |-> 0]

NoNotify ==
    [attempted |-> {}, outcome |-> [sms |-> "off", email |-> "off"],
     sent_count |-> 0, ret |-> NoneVal, raised |-> FALSE]

NoEval ==
    [symbol |-> "", price |-> 0, at |-> 0, saved |-> FALSE,
     queried |-> FALSE, rows |-> <<>>, change |-> NoneVal, key |-> <<>>,
     recorded |-> FALSE, seen |-> FALSE, alerted |-> FALSE, slept |-> FALSE]

\* the parts of the state a specification does not exercise
AsideInit ==
    /\ running = TRUE
    /\ shutdown = NoneVal
    /\ started = StartTime
    /\ retry_count = DefaultRetryCount
    /\ attempt = 0
    /\ requests = <<>>
    /\ sleeps = <<>>
    /\ calls = 0
    /\ quote_result = NoneVal
    /\ lastOp = NoneVal
    /\ fmtIn = NoneVal
    /\ fmtOut = NoneVal

\* AlertManager.__init__ and an empty store, at clock t, the thread at p
CoreInit(t, p) ==
    /\ now = t
    /\ pc = p
    /\ cycles = 0
    /\ faults = 0
    /\ schedNow = t
    /\ ruleIdx = 0
    /\ symIdx = 0
    /\ messages = <<>>
    /\ last_scheduled_alerts = EmptyMap
    /\ last_price_alerts = EmptyMap
    /\ db = <<>>
    /\ sent = <<>>
    /\ lastNotify = NoNotify
    /\ events = <<>>
    /\ lastEval = NoEval
    /\ cycleStart = t
    /\ cycleResult = "none"
    /\ caught = FALSE
    /\ cleanupLog = <<>>

Init ==
    /\ cfg \in Configs
    /\ CoreInit(StartTime, "ready")
    /\ AsideInit

PropagatingHandler(raisedInside) ==
    IF raisedInside THEN "raised" ELSE "returned"

\* run_monitoring_cycle's try / except Exception (alerts.py:226, 249-250):
\* what the caller sees, given whether an exception was raised inside
HandlerResult(raisedInside) == "returned"

ExitAfterFirstSymbol(loopPc, exitPc) == exitPc

\* the next position of a loop over the watchlist
AfterSymbol(loopPc, exitPc) ==
    IF symIdx < Len(get_watchlist) THEN loopPc ELSE exitPc

\* the record kept of one Notifier.notify call
Sent(kind, rule, key, text, subject, result) ==
    [kind |-> kind, rule |-> rule, key |-> key, text |-> text,
     subject |-> subject, at |-> now, result |-> result]

\* ----------------------------------------------------------------- caller
\* the caller lets time pass before the next cycle
Wait(g) ==
    /\ pc = "idle"
    /\ cycles < MaxCycles
    /\ now' = now + g
    /\ pc' = "ready"
    /\ UNCHANGED <<cfg, aside, cleanupLog, cycles, faults, schedNow, ruleIdx, symIdx, messages,
                   last_scheduled_alerts, last_price_alerts, db, sent,
                   lastNotify, events, lastEval, cycleStart, cycleResult, caught>>

\* ---------------------------------------------------- run_monitoring_cycle
\* the call at an instant the gate excludes: the early return
CycleGated ==
    /\ pc = "ready"
    /\ cycles < MaxCycles
    /\ Gated(now)
    /\ cycles' = cycles + 1
    /\ cycleStart' = now
    /\ events' = <<>>
    /\ caught' = FALSE
    /\ messages' = <<>>
    /\ cycleResult' = HandlerResult(FALSE)
    /\ pc' = "idle"
    /\ UNCHANGED <<cfg, aside, cleanupLog, now, faults, schedNow, ruleIdx, symIdx,
                   last_scheduled_alerts, last_price_alerts, db, sent,
                   lastNotify, lastEval>>

ScheduleNeverSkipped == FALSE

\* check_scheduled_alerts, the early return of lines 118-120
ScheduleSkipped == get_watchlist = <<>>

\* the call otherwise: enters check_scheduled_alerts, which reads the clock
\* and returns at once on an empty watchlist
CycleBegin ==
    /\ pc = "ready"
    /\ cycles < MaxCycles
    /\ ~Gated(now)
    /\ cycles' = cycles + 1
    /\ cycleStart' = now
    /\ events' = <<>>
    /\ caught' = FALSE
    /\ cycleResult' = "running"
    /\ schedNow' = now
    /\ ruleIdx' = 1
    /\ messages' = <<>>
    /\ pc' = IF ScheduleSkipped THEN "price_start" ELSE "sched"
    /\ UNCHANGED <<cfg, aside, cleanupLog, now, faults, symIdx,
                   last_scheduled_alerts, last_price_alerts, db, sent,
                   lastNotify, lastEval>>

\* an exception raised inside the cycle reaches the handler, which logs it
Except ==
    /\ caught' = TRUE
    /\ cycleResult' = HandlerResult(TRUE)
    /\ pc' = "idle"

\* ------------------------------------------------- check_scheduled_alerts
\* a rule whose time is not the current HH:MM
RuleNoMatch ==
    /\ pc = "sched"
    /\ ruleIdx <= Len(get_alert_schedule)
    /\ StrfHHMM(schedNow) # get_alert_schedule[ruleIdx].time
    /\ ruleIdx' = ruleIdx + 1
    /\ UNCHANGED <<cfg, aside, cleanupLog, now, pc, cycles, faults, schedNow, symIdx, messages,
                   last_scheduled_alerts, last_price_alerts, db, sent,
                   lastNotify, events, lastEval, cycleStart, cycleResult, caught>>

\* a matching rule whose key is already recorded: continue
RuleAlreadySent ==
    /\ pc = "sched"
    /\ ruleIdx <= Len(get_alert_schedule)
    /\ StrfHHMM(schedNow) = get_alert_schedule[ruleIdx].time
    /\ ScheduleSeen(ScheduleKey(get_alert_schedule[ruleIdx].time, schedNow))
    /\ ruleIdx' = ruleIdx + 1
    /\ UNCHANGED <<cfg, aside, cleanupLog, now, pc, cycles, faults, schedNow, symIdx, messages,
                   last_scheduled_alerts, last_price_alerts, db, sent,
                   lastNotify, events, lastEval, cycleStart, cycleResult, caught>>

\* a matching rule not yet recorded: enters _send_watchlist_alert
RuleFire ==
    /\ pc = "sched"
    /\ ruleIdx <= Len(get_alert_schedule)
    /\ StrfHHMM(schedNow) = get_alert_schedule[ruleIdx].time
    /\ ~ScheduleSeen(ScheduleKey(get_alert_schedule[ruleIdx].time, schedNow))
    /\ messages' = <<get_alert_schedule[ruleIdx].message>>
    /\ symIdx' = 1
    /\ pc' = "send"
    /\ UNCHANGED <<cfg, aside, cleanupLog, now, cycles, faults, schedNow, ruleIdx,
                   last_scheduled_alerts, last_price_alerts, db, sent,
                   lastNotify, events, lastEval, cycleStart, cycleResult, caught>>

\* the loop over the rules is over: check_scheduled_alerts returns
RulesDone ==
    /\ pc = "sched"
    /\ ruleIdx > Len(get_alert_schedule)
    /\ pc' = "price_start"
    /\ UNCHANGED <<cfg, aside, cleanupLog, now, cycles, faults, schedNow, ruleIdx, symIdx,
                   messages, last_scheduled_alerts, last_price_alerts, db,
                   sent, lastNotify, events, lastEval, cycleStart, cycleResult,
                   caught>>

\* --------------------------------------------------- _send_watchlist_alert
\* `if i < len(watchlist) - 1`, with positions counted from 1
DelayAfter(i, n) == i < n

\* get_quote returned a quote: save it if a database is configured, format
\* its line, sleep unless it was the last symbol
SendFetchQuote(p, saveOk) ==
    /\ pc = "send"
    /\ database \/ saveOk
    /\ faults + (IF saveOk THEN 0 ELSE 1) <= MaxFaults
    /\ LET symbol == get_watchlist[symIdx]
           quote == Quote(symbol, p, now)
           delay == DelayAfter(symIdx, Len(get_watchlist))
       IN /\ db' = IF database THEN save_quote(db, quote, saveOk) ELSE db
          /\ messages' = Append(messages,
                 format_stock_message(quote, TRUE, cfg.notifications))
          /\ events' = events \o <<"fetch">>
                         \o (IF database THEN <<"save">> ELSE <<>>)
                         \o (IF delay THEN <<"sleep">> ELSE <<>>)
          /\ now' = IF delay THEN now + api_delay ELSE now
    /\ faults' = faults + (IF saveOk THEN 0 ELSE 1)
    /\ symIdx' = symIdx + 1
    /\ pc' = AfterSymbol("send", "send_notify")
    /\ UNCHANGED <<cfg, aside, cleanupLog, cycles, schedNow, ruleIdx, last_scheduled_alerts,
                   last_price_alerts, sent, lastNotify, lastEval, cycleStart,
                   cycleResult, caught>>

\* get_quote returned None: the "Unable to fetch price" line
SendFetchNone ==
    /\ pc = "send"
    /\ faults < MaxFaults
    /\ LET symbol == get_watchlist[symIdx]
           delay == DelayAfter(symIdx, Len(get_watchlist))
       IN /\ messages' = Append(messages, UnableLine(symbol))
          /\ events' = events \o <<"fetch">>
                         \o (IF delay THEN <<"sleep">> ELSE <<>>)
          /\ now' = IF delay THEN now + api_delay ELSE now
    /\ faults' = faults + 1
    /\ symIdx' = symIdx + 1
    /\ pc' = AfterSymbol("send", "send_notify")
    /\ UNCHANGED <<cfg, aside, cleanupLog, cycles, schedNow, ruleIdx, last_scheduled_alerts,
                   last_price_alerts, db, sent, lastNotify, lastEval,
                   cycleStart, cycleResult, caught>>

\* get_quote raised an exception it does not catch (stock_api.py:114-119
\* catch StockAPIError, ValueError and KeyError only)
SendFetchRaise ==
    /\ pc = "send"
    /\ faults < MaxFaults
    /\ faults' = faults + 1
    /\ events' = Append(events, "fetch")
    /\ Except
    /\ UNCHANGED <<cfg, aside, cleanupLog, now, cycles, schedNow, ruleIdx, symIdx, messages,
                   last_scheduled_alerts, last_price_alerts, db, sent,
                   lastNotify, lastEval, cycleStart>>

RecordIfDelivered(result) == result.sent_count > 0

\* alerts.py:135-136: once _send_watchlist_alert has returned, the key is
\* assigned unconditionally, whatever notify delivered
RecordAfterDispatch(result) == TRUE

\* self.notifier.notify(full_message), then the key is recorded
\* (alerts.py:169-170, 136)
SendNotify(smsOut, emailOut) ==
    /\ pc = "send_notify"
    /\ faults + NotifyFaults(smsOut, emailOut) <= MaxFaults
    /\ faults' = faults + NotifyFaults(smsOut, emailOut)
    /\ LET alert_time == get_alert_schedule[ruleIdx].time
           key == ScheduleKey(alert_time, schedNow)
           result == Notify(smsOut, emailOut)
       IN /\ sent' = Append(sent, Sent("schedule", ruleIdx, key, messages,
                                       DefaultSubject, result))
          /\ lastNotify' = result
          /\ events' = Append(events, "notify")
          /\ IF result.raised
             THEN /\ Except
                  /\ UNCHANGED <<last_scheduled_alerts, ruleIdx>>
             ELSE /\ last_scheduled_alerts' =
                         IF RecordAfterDispatch(result)
                         THEN Put(last_scheduled_alerts, key, schedNow)
                         ELSE last_scheduled_alerts
                  /\ ruleIdx' = ruleIdx + 1
                  /\ pc' = "sched"
                  /\ UNCHANGED <<cycleResult, caught>>
    /\ UNCHANGED <<cfg, aside, cleanupLog, now, cycles, schedNow, symIdx, messages,
                   last_price_alerts, db, lastEval, cycleStart>>

\* ----------------------------------------------- check_price_change_alerts
SkippedWhenDisabledOnly ==
    \/ ~get_price_alerts_config.enabled
    \/ get_watchlist = <<>>

\* the early returns of lines 176-177 and 183-184
PriceSkipped ==
    \/ ~get_price_alerts_config.enabled
    \/ get_watchlist = <<>>
    \/ ~database

\* check_price_change_alerts is entered
PriceStart ==
    /\ pc = "price_start"
    /\ pc' = IF PriceSkipped THEN "cleanup" ELSE "price"
    /\ symIdx' = 1
    /\ UNCHANGED <<cfg, aside, cleanupLog, now, cycles, faults, schedNow, ruleIdx, messages,
                   last_scheduled_alerts, last_price_alerts, db, sent,
                   lastNotify, events, lastEval, cycleStart, cycleResult,
                   caught>>

\* get_quote returned None: `continue`, which also skips the sleep of line 222
PriceFetchNone ==
    /\ pc = "price"
    /\ faults < MaxFaults
    /\ faults' = faults + 1
    /\ events' = Append(events, "fetch")
    /\ symIdx' = symIdx + 1
    /\ pc' = AfterSymbol("price", "cleanup")
    /\ UNCHANGED <<cfg, aside, cleanupLog, now, cycles, schedNow, ruleIdx, messages,
                   last_scheduled_alerts, last_price_alerts, db, sent,
                   lastNotify, lastEval, cycleStart, cycleResult, caught>>

\* get_quote raised an exception it does not catch
PriceFetchRaise ==
    /\ pc = "price"
    /\ faults < MaxFaults
    /\ faults' = faults + 1
    /\ events' = Append(events, "fetch")
    /\ Except
    /\ UNCHANGED <<cfg, aside, cleanupLog, now, cycles, schedNow, ruleIdx, symIdx, messages,
                   last_scheduled_alerts, last_price_alerts, db, sent,
                   lastNotify, lastEval, cycleStart>>

MeetsThresholdSigned(price_change) ==
    /\ price_change # NoneVal
    /\ Value(price_change) >= get_price_alerts_config.threshold_percentage

\* `abs(price_change) >= threshold`
MeetsThreshold(price_change) ==
    /\ price_change # NoneVal
    /\ Abs(Value(price_change)) >= get_price_alerts_config.threshold_percentage

\* get_quote returned a quote: lines 192-222 for one symbol
PriceEvaluate(p, saveOk, calcOk, smsOut, emailOut) ==
    /\ pc = "price"
    /\ LET symbol == get_watchlist[symIdx]
           quote == Quote(symbol, p, now)
           rows == save_quote(db, quote, saveOk)
           price_change ==
               calculate_price_change(rows, symbol,
                   get_price_alerts_config.check_interval, now, calcOk)
           met == MeetsThreshold(price_change)
           key == PriceKey(symbol, now)
           seen == met /\ PriceSeen(key)
           alert == met /\ ~seen
           result == Notify(smsOut, emailOut)
           delay == price_change # NoneVal /\ ~seen /\ ~(alert /\ result.raised)
           cost == (IF saveOk THEN 0 ELSE 1) + (IF calcOk THEN 0 ELSE 1)
                   + (IF alert THEN NotifyFaults(smsOut, emailOut) ELSE 0)
       IN /\ faults + cost <= MaxFaults
          /\ faults' = faults + cost
          /\ db' = rows
          /\ lastEval' = [symbol |-> symbol, price |-> p, at |-> now,
                          saved |-> saveOk, queried |-> calcOk, rows |-> rows,
                          change |-> price_change, key |-> key,
                          recorded |-> PriceSeen(key), seen |-> seen,
                          alerted |-> alert, slept |-> delay]
          /\ events' = events \o <<"fetch", "save">>
                         \o (IF alert THEN <<"notify">> ELSE <<>>)
                         \o (IF delay THEN <<"sleep">> ELSE <<>>)
          /\ now' = IF delay THEN now + api_delay ELSE now
          /\ IF alert
             THEN /\ sent' = Append(sent,
                        Sent("price", 0, key,
                             PriceAlertText(symbol, price_change,
                                 get_price_alerts_config.check_interval, quote),
                             <<"Price Alert", symbol>>, result))
                  /\ lastNotify' = result
             ELSE UNCHANGED <<sent, lastNotify>>
          /\ IF alert /\ result.raised
             THEN /\ Except
                  /\ UNCHANGED <<last_price_alerts, symIdx>>
             ELSE /\ last_price_alerts' =
                         IF alert THEN Put(last_price_alerts, key, now)
                         ELSE last_price_alerts
                  /\ symIdx' = symIdx + 1
                  /\ pc' = AfterSymbol("price", "cleanup")
                  /\ UNCHANGED <<cycleResult, caught>>
    /\ UNCHANGED <<cfg, aside, cleanupLog, cycles, schedNow, ruleIdx, messages,
                   last_scheduled_alerts, cycleStart>>

\* ------------------------------------------- the tail of the monitoring cycle
\* `if self.database` and `now.hour == 0 and now.minute == 0`
CleanupDue(t) == database /\ Hour(t) = 0 /\ Minute(t) = 0

\* retention cleanup is due: cleanup_old_data, then the cycle returns
CleanupRun(ok) ==
    /\ pc = "cleanup"
    /\ CleanupDue(now)
    /\ faults + (IF ok THEN 0 ELSE 1) <= MaxFaults
    /\ faults' = faults + (IF ok THEN 0 ELSE 1)
    /\ db' = cleanup_old_data(db, get_storage_config.retention_days, now, ok)
    /\ events' = Append(events, "cleanup")
    /\ cleanupLog' = Append(cleanupLog, now)
    /\ cycleResult' = HandlerResult(FALSE)
    /\ pc' = "idle"
    /\ UNCHANGED <<cfg, aside, now, cycles, schedNow, ruleIdx, symIdx, messages,
                   last_scheduled_alerts, last_price_alerts, sent, lastNotify,
                   lastEval, cycleStart, caught>>

\* no cleanup is due: the cycle returns
CycleReturn ==
    /\ pc = "cleanup"
    /\ ~CleanupDue(now)
    /\ cycleResult' = HandlerResult(FALSE)
    /\ pc' = "idle"
    /\ UNCHANGED <<cfg, aside, cleanupLog, now, cycles, faults, schedNow, ruleIdx, symIdx,
                   messages, last_scheduled_alerts, last_price_alerts, db,
                   sent, lastNotify, events, lastEval, cycleStart, caught>>

\* ---------------------------------------------------------- specification
Next ==
    \/ \E g \in Gaps : Wait(g)
    \/ CycleGated
    \/ CycleBegin
    \/ RuleNoMatch
    \/ RuleAlreadySent
    \/ RuleFire
    \/ RulesDone
    \/ \E p \in Prices, saveOk \in BOOLEAN : SendFetchQuote(p, saveOk)
    \/ SendFetchNone
    \/ SendFetchRaise
    \/ \E smsOut \in ChannelOutcomes(cfg.notifications.sms_enabled),
          emailOut \in ChannelOutcomes(cfg.notifications.email_enabled) :
          SendNotify(smsOut, emailOut)
    \/ PriceStart
    \/ PriceFetchNone
    \/ PriceFetchRaise
    \/ \E p \in Prices, saveOk \in BOOLEAN, calcOk \in BOOLEAN,
          smsOut \in ChannelOutcomes(cfg.notifications.sms_enabled),
          emailOut \in ChannelOutcomes(cfg.notifications.email_enabled) :
          PriceEvaluate(p, saveOk, calcOk, smsOut, emailOut)
    \/ \E ok \in BOOLEAN : CleanupRun(ok)
    \/ CycleReturn

Spec == Init /\ [][Next]_vars

\* ============================================================ days apart
\* The same monitoring cycles, called half a minute or a whole day apart, from
\* Friday 23:58:00 or 23:59:00, in runs in which every fetch, persist, query
\* and send succeeds.
DayGaps == {30, DaySeconds}

DayStarts == {StartTime - 60, StartTime}

\* price alerts enabled, a database, no gating
DayConfigs ==
    {c \in Configs :
        /\ c.price_alerts.enabled
        /\ c.storage.enabled
        /\ c.watchlist # <<>>
        /\ ~c.market_hours.only_during_market_hours}

\* the outcome of a send that succeeds
OkOutcomes(enabled) == IF enabled THEN {"ok"} ELSE {"off"}

InitDays ==
    /\ cfg \in DayConfigs
    /\ \E t \in DayStarts : CoreInit(t, "ready")
    /\ AsideInit

NextDays ==
    \/ \E g \in DayGaps : Wait(g)
    \/ CycleBegin
    \/ RuleNoMatch
    \/ RuleAlreadySent
    \/ RuleFire
    \/ RulesDone
    \/ \E p \in Prices : SendFetchQuote(p, TRUE)
    \/ \E smsOut \in OkOutcomes(cfg.notifications.sms_enabled),
          emailOut \in OkOutcomes(cfg.notifications.email_enabled) :
          SendNotify(smsOut, emailOut)
    \/ PriceStart
    \/ \E p \in Prices,
          smsOut \in OkOutcomes(cfg.notifications.sms_enabled),
          emailOut \in OkOutcomes(cfg.notifications.email_enabled) :
          PriceEvaluate(p, TRUE, TRUE, smsOut, emailOut)
    \/ CleanupRun(TRUE)
    \/ CycleReturn

SpecDays == InitDays /\ [][NextDays]_vars

\* ============================================================ quote client
\* StockAPI.get_quote and StockAPI._make_request, one call at a time.
MaxCalls == 2
MaxRetryCount == 3

\* main.py:71: retry_delay is the configured api_delay
retry_delay == api_delay

\* what one requests.get + raise_for_status + json() can come to:
\*   "network"       a RequestException (connection, timeout, HTTP status,
\*                   undecodable body)
\*   "error_message" a JSON object with the key 'Error Message'
\*   "note"          a JSON object with the key 'Note'
\*   "not_object"    a JSON body that is no container, e.g. null
\*   "quote"         an object with a well-formed 'Global Quote'
\*   "empty"         an object without 'Global Quote', or with an empty one
\*   "unparsable"    a 'Global Quote' with a non-numeric string for a number
\*   "null_field"    a 'Global Quote' with null for a number
Replies ==
    {"network", "error_message", "note", "not_object",
     "quote", "empty", "unparsable", "null_field"}

Transient == {"network", "note"}

PassRetryingApiError(reply, att, count) ==
    IF reply \in Transient \cup {"error_message"}
    THEN IF att < count - 1
         THEN [then |-> "continue", sleep |-> Some(retry_delay)]
         ELSE [then |-> "StockAPIError", sleep |-> NoneVal]
    ELSE [then |-> "return", sleep |-> NoneVal]

\* one pass of the loop body of _make_request on an upstream reply: how the
\* pass ends and the sleep it makes before
MakeRequestPass(reply, att, count) ==
    CASE reply = "not_object" ->
            [then |-> "TypeError", sleep |-> NoneVal]
      [] reply = "error_message" ->
            [then |-> "StockAPIError", sleep |-> NoneVal]
      [] reply = "note" ->
            IF att < count - 1
            THEN [then |-> "continue", sleep |-> Some(retry_delay * (att + 1))]
            ELSE [then |-> "StockAPIError", sleep |-> NoneVal]
      [] reply = "network" ->
            IF att < count - 1
            THEN [then |-> "continue", sleep |-> Some(retry_delay)]
            ELSE [then |-> "StockAPIError", sleep |-> NoneVal]
      [] OTHER ->
            [then |-> "return", sleep |-> NoneVal]

\* get_quote on the data _make_request returned (stock_api.py:93-112)
ParseQuote(reply, symbol, p, t) ==
    CASE reply = "quote" -> [then |-> "return", value |-> Some(Quote(symbol, p, t))]
      [] reply = "empty" -> [then |-> "return", value |-> NoneVal]
      [] reply = "unparsable" -> [then |-> "ValueError", value |-> NoneVal]
      [] OTHER -> [then |-> "TypeError", value |-> NoneVal]

\* get_quote's handlers: StockAPIError, ValueError and KeyError are logged
\* and answered with None; anything else propagates to the caller
GetQuoteEnds(exception) ==
    IF exception \in {"StockAPIError", "ValueError", "KeyError"}
    THEN [ended |-> "returned", value |-> NoneVal]
    ELSE [ended |-> "raised", value |-> NoneVal]

QuoteRunning(symbol) == [ended |-> "running", symbol |-> symbol, value |-> NoneVal]

QuoteEnded(end) ==
    [ended |-> end.ended, symbol |-> quote_result.symbol, value |-> end.value]

clientRest == <<cfg, cycles, faults, schedNow, ruleIdx, symIdx, messages,
                last_scheduled_alerts, last_price_alerts, db, sent, lastNotify,
                events, lastEval, cycleStart, cycleResult, caught, cleanupLog,
                running, shutdown, started, retry_count, lastOp, fmtIn, fmtOut>>

InitClient ==
    /\ cfg \in {c \in Configs : Len(c.watchlist) = 2}
    /\ CoreInit(StartTime, "client")
    /\ running = TRUE
    /\ shutdown = NoneVal
    /\ started = StartTime
    /\ retry_count \in 0..MaxRetryCount
    /\ attempt = 0
    /\ requests = <<>>
    /\ sleeps = <<>>
    /\ calls = 0
    /\ quote_result = NoneVal
    /\ lastOp = NoneVal
    /\ fmtIn = NoneVal
    /\ fmtOut = NoneVal

\* get_quote(symbol) is called: _make_request enters its loop
GetQuote(symbol) ==
    /\ pc = "client"
    /\ calls < MaxCalls
    /\ calls' = calls + 1
    /\ attempt' = 0
    /\ requests' = <<>>
    /\ sleeps' = <<>>
    /\ quote_result' = QuoteRunning(symbol)
    /\ pc' = "request"
    /\ UNCHANGED <<now, clientRest>>

\* range(self.retry_count) is exhausted without a pass having returned or
\* raised: line 74 raises StockAPIError
RangeExhausted ==
    /\ pc = "request"
    /\ ~(attempt < retry_count)
    /\ quote_result' = QuoteEnded(GetQuoteEnds("StockAPIError"))
    /\ pc' = "client"
    /\ UNCHANGED <<now, attempt, requests, sleeps, calls, clientRest>>

\* one pass of the loop: a request, its reply, and what follows from it
Request(reply, p) ==
    /\ pc = "request"
    /\ attempt < retry_count
    /\ requests' = Append(requests, reply)
    /\ LET pass == MakeRequestPass(reply, attempt, retry_count)
           parsed == ParseQuote(reply, quote_result.symbol, p, now)
       IN CASE pass.then = "continue" ->
                 /\ sleeps' = Append(sleeps, Value(pass.sleep))
                 /\ now' = now + Value(pass.sleep)
                 /\ attempt' = attempt + 1
                 /\ UNCHANGED <<pc, quote_result>>
            [] pass.then = "return" ->
                 /\ quote_result' =
                       QuoteEnded(IF parsed.then = "return"
                                  THEN [ended |-> "returned", value |-> parsed.value]
                                  ELSE GetQuoteEnds(parsed.then))
                 /\ pc' = "client"
                 /\ UNCHANGED <<now, attempt, sleeps>>
            [] OTHER ->
                 /\ quote_result' = QuoteEnded(GetQuoteEnds(pass.then))
                 /\ pc' = "client"
                 /\ UNCHANGED <<now, attempt, sleeps>>
    /\ UNCHANGED <<calls, clientRest>>

NextClient ==
    \/ \E symbol \in {get_watchlist[i] : i \in DOMAIN get_watchlist} :
          GetQuote(symbol)
    \/ RangeExhausted
    \/ \E reply \in Replies, p \in Prices : Request(reply, p)

SpecClient == InitClient /\ [][NextClient]_vars

\* ============================================================= quote store
\* StockDatabase's operations called one after another by any caller.
MaxOps == 3

StoreSymbols == {"A", "B"}
\* retention_days and minutes a caller passes
RetentionDays == {0, 1}
LookbackMinutes == {1}
\* seconds that pass before an operation
StoreGaps == {0, DaySeconds}

\* the record of one operation: its arguments, the clock and the rows before
\* it, what it returned and whether it raised (every method body is
\* try / except Exception / finally session.close())
StoreOp(op, args, ok, at, ret) ==
    [n |-> (IF lastOp = NoneVal THEN 0 ELSE lastOp.n) + 1,
     op |-> op, args |-> args, ok |-> ok, at |-> at, before |-> db,
     ret |-> ret, raised |-> FALSE]

storeRest == <<cfg, pc, cycles, schedNow, ruleIdx, symIdx, messages,
               last_scheduled_alerts, last_price_alerts, sent, lastNotify,
               events, lastEval, cycleStart, cycleResult, caught, cleanupLog,
               running, shutdown, started, retry_count, attempt, requests,
               sleeps, calls, quote_result, fmtIn, fmtOut>>

InitStore ==
    /\ cfg \in {c \in Configs : Len(c.watchlist) = 2}
    /\ CoreInit(StartTime, "store")
    /\ AsideInit

\* the guard of every store operation: g seconds pass, then the operation
\* runs, with a storage error if ok is FALSE
StoreCall(g, ok) ==
    /\ pc = "store"
    /\ (IF lastOp = NoneVal THEN 0 ELSE lastOp.n) < MaxOps
    /\ faults + (IF ok THEN 0 ELSE 1) <= MaxFaults
    /\ faults' = faults + (IF ok THEN 0 ELSE 1)
    /\ now' = now + g

StoreSave(g, symbol, p, ok) ==
    /\ StoreCall(g, ok)
    /\ db' = save_quote(db, Quote(symbol, p, now'), ok)
    /\ lastOp' = StoreOp("save_quote", <<symbol, p>>, ok, now',
                         save_quote_returns(ok))
    /\ UNCHANGED storeRest

StoreLatest(g, symbol, ok) ==
    /\ StoreCall(g, ok)
    /\ lastOp' = StoreOp("get_latest_price", <<symbol>>, ok, now',
                         get_latest_price(db, symbol, ok))
    /\ UNCHANGED <<db, storeRest>>

StoreChange(g, symbol, minutes, ok) ==
    /\ StoreCall(g, ok)
    /\ lastOp' = StoreOp("calculate_price_change", <<symbol, minutes>>, ok, now',
                         calculate_price_change(db, symbol, minutes, now', ok))
    /\ UNCHANGED <<db, storeRest>>

StoreCleanup(g, retention_days, ok) ==
    /\ StoreCall(g, ok)
    /\ db' = cleanup_old_data(db, retention_days, now', ok)
    /\ lastOp' = StoreOp("cleanup_old_data", <<retention_days>>, ok, now',
                         cleanup_old_data_returns(db, retention_days, now', ok))
    /\ UNCHANGED storeRest

NextStore ==
    \/ \E g \in StoreGaps, symbol \in StoreSymbols, p \in Prices, ok \in BOOLEAN :
          StoreSave(g, symbol, p, ok)
    \/ \E g \in StoreGaps, symbol \in StoreSymbols, ok \in BOOLEAN :
          StoreLatest(g, symbol, ok)
    \/ \E g \in StoreGaps, symbol \in StoreSymbols,
          minutes \in LookbackMinutes, ok \in BOOLEAN :
          StoreChange(g, symbol, minutes, ok)
    \/ \E g \in StoreGaps, retention_days \in RetentionDays, ok \in BOOLEAN :
          StoreCleanup(g, retention_days, ok)

SpecStore == InitStore /\ [][NextStore]_vars

\* ================================================================== driver
\* main.py: the loop around run_monitoring_cycle and the signal handler.
LoopSleepSeconds == 60

\* clocks at which main() may enter its loop: Friday 23:58:50, 23:59:00 and
\* 23:59:40
DriverStarts == {StartTime - 10, StartTime, StartTime + 40}

DriverConfigs == {c \in Configs : Len(c.watchlist) <= 1}

WhileTrue == TRUE

RunOnce == running /\ cycles = 0

\* `while running:`
WhileRunning == running

\* positions between two cycles, and after the loop
BetweenCycles == {"loop", "ready", "idle", "stopped"}

driverRest == <<retry_count, attempt, requests, sleeps, calls, quote_result,
                lastOp, fmtIn, fmtOut>>

InitDriver ==
    /\ cfg \in DriverConfigs
    /\ \E t \in DriverStarts : CoreInit(t, "loop") /\ started = t
    /\ running = TRUE
    /\ shutdown = NoneVal
    /\ retry_count = DefaultRetryCount
    /\ attempt = 0
    /\ requests = <<>>
    /\ sleeps = <<>>
    /\ calls = 0
    /\ quote_result = NoneVal
    /\ lastOp = NoneVal
    /\ fmtIn = NoneVal
    /\ fmtOut = NoneVal

\* the loop condition is evaluated
LoopTest ==
    /\ pc = "loop"
    /\ pc' = IF WhileRunning THEN "ready" ELSE "stopped"
    /\ UNCHANGED <<cfg, aside, cleanupLog, now, cycles, faults, schedNow,
                   ruleIdx, symIdx, messages, last_scheduled_alerts,
                   last_price_alerts, db, sent, lastNotify, events, lastEval,
                   cycleStart, cycleResult, caught>>

\* run_monitoring_cycle has returned: time.sleep(60)
LoopSleep ==
    /\ pc = "idle"
    /\ now' = now + LoopSleepSeconds
    /\ pc' = "loop"
    /\ UNCHANGED <<cfg, aside, cleanupLog, cycles, faults, schedNow,
                   ruleIdx, symIdx, messages, last_scheduled_alerts,
                   last_price_alerts, db, sent, lastNotify, events, lastEval,
                   cycleStart, cycleResult, caught>>

\* SIGINT or SIGTERM arrives, wherever the thread is: the handler clears the
\* flag and returns to the interrupted code
signal_handler ==
    /\ running
    /\ pc # "stopped"
    /\ running' = FALSE
    /\ shutdown' = Some([pc |-> pc, cycles |-> cycles, at |-> now])
    /\ UNCHANGED <<cfg, cleanupLog, now, pc, cycles, faults, schedNow,
                   ruleIdx, symIdx, messages, last_scheduled_alerts,
                   last_price_alerts, db, sent, lastNotify, events, lastEval,
                   cycleStart, cycleResult, caught, started, driverRest>>

\* the steps of the main thread
DriverThread ==
    \/ LoopTest
    \/ LoopSleep
    \/ CycleGated
    \/ CycleBegin
    \/ RuleNoMatch
    \/ RuleAlreadySent
    \/ RuleFire
    \/ RulesDone
    \/ \E p \in Prices, saveOk \in BOOLEAN : SendFetchQuote(p, saveOk)
    \/ SendFetchNone
    \/ SendFetchRaise
    \/ \E smsOut \in ChannelOutcomes(cfg.notifications.sms_enabled),
          emailOut \in ChannelOutcomes(cfg.notifications.email_enabled) :
          SendNotify(smsOut, emailOut)
    \/ PriceStart
    \/ PriceFetchNone
    \/ PriceFetchRaise
    \/ \E p \in Prices, saveOk \in BOOLEAN, calcOk \in BOOLEAN,
          smsOut \in ChannelOutcomes(cfg.notifications.sms_enabled),
          emailOut \in ChannelOutcomes(cfg.notifications.email_enabled) :
          PriceEvaluate(p, saveOk, calcOk, smsOut, emailOut)
    \/ \E ok \in BOOLEAN : CleanupRun(ok)
    \/ CycleReturn

NextDriver ==
    \/ DriverThread
    \/ signal_handler

SpecDriver == InitDriver /\ [][NextDriver]_vars

\* the configurations without the 12-second pause of an ungated price check
ShutdownConfigs ==
    {c \in DriverConfigs :
        c.price_alerts.enabled => c.market_hours.only_during_market_hours}

InitShutdown == InitDriver /\ cfg \in ShutdownConfigs

\* the main thread is the only thread and keeps running: a step of it that
\* stays possible is eventually taken (every sleep ends, every request and
\* every send returns)
FairDriver == InitShutdown /\ [][NextDriver]_vars /\ WF_vars(DriverThread)

\* ============================================================== formatting
\* AlertManager.format_stock_message applied to one quote.
FormatQuotes ==
    [symbol : {"ABC", "A"}, price : {1050, 0}, timestamp : {0},
     change : {-25, 0, 25}, change_percent : {"-2.3", "0", "1.5"},
     volume : {0, 1234567}, high : {0, 1100}, low : {0, 1000}]

FormatOptions ==
    [include_volume : BOOLEAN, include_day_high_low : BOOLEAN]

formatRest == <<cfg, now, pc, cycles, faults, schedNow, ruleIdx, symIdx,
                messages, last_scheduled_alerts, last_price_alerts, db, sent,
                lastNotify, events, lastEval, cycleStart, cycleResult, caught,
                cleanupLog, running, shutdown, started, retry_count, attempt,
                requests, sleeps, calls, quote_result, lastOp>>

InitFormat ==
    /\ cfg \in {c \in Configs : Len(c.watchlist) = 2}
    /\ CoreInit(StartTime, "format")
    /\ running = TRUE
    /\ shutdown = NoneVal
    /\ started = StartTime
    /\ retry_count = DefaultRetryCount
    /\ attempt = 0
    /\ requests = <<>>
    /\ sleeps = <<>>
    /\ calls = 0
    /\ quote_result = NoneVal
    /\ lastOp = NoneVal
    /\ fmtIn \in [quote : FormatQuotes, include_details : BOOLEAN,
                  notifications_config : FormatOptions]
    /\ fmtOut = NoneVal

Format ==
    /\ fmtOut = NoneVal
    /\ fmtOut' = Some(format_stock_message(fmtIn.quote, fmtIn.include_details,
                                           fmtIn.notifications_config))
    /\ UNCHANGED <<fmtIn, formatRest>>

NextFormat == Format

SpecFormat == InitFormat /\ [][NextFormat]_vars

\* =========================================== the command line: add, remove
\* The commands edit the watchlist of the configuration file, which the user
\* also writes by hand: an entry of the file is in whatever case it was
\* typed in, while an argument of a command is folded to upper case.
CliLetters == {"a", "b"}

\* str.upper on a one-letter ticker
upper(symbol) ==
    CASE symbol = "a" -> "A"
      [] symbol = "b" -> "B"
      [] OTHER -> symbol

CliSymbols == CliLetters \cup {upper(s) : s \in CliLetters}

\* `x in list`: equality of strings, case and all
Contains(list, x) == \E i \in DOMAIN list : list[i] = x

\* list.remove(x): drops the first element equal to x
ListRemove(list, x) ==
    LET i == CHOOSE k \in DOMAIN list :
                 list[k] = x /\ \A j \in 1..(k - 1) : list[j] # x
    IN SubSeq(list, 1, i - 1) \o SubSeq(list, i + 1, Len(list))

\* hand-written watchlists of up to two entries, no ticker twice in any case
CliWatchlists ==
    {<<>>} \cup {<<s>> : s \in CliSymbols}
           \cup {w \in CliSymbols \X CliSymbols : upper(w[1]) # upper(w[2])}

CliConfigs ==
    {[c EXCEPT !.watchlist = w] :
        c \in {d \in Configs : d.watchlist = <<>>}, w \in CliWatchlists}

\* what a command was given, what it printed, and the watchlist it read
CliOp(op, symbol, printed, before) ==
    [op |-> op, symbol |-> symbol, printed |-> printed, before |-> before]

cliRest == <<now, pc, cycles, faults, schedNow, ruleIdx, symIdx, messages,
             last_scheduled_alerts, last_price_alerts, db, sent, lastNotify,
             events, lastEval, cycleStart, cycleResult, caught, cleanupLog,
             running, shutdown, started, retry_count, attempt, requests,
             sleeps, calls, quote_result, fmtIn, fmtOut>>

InitCli ==
    /\ cfg \in CliConfigs
    /\ CoreInit(StartTime, "cli")
    /\ running = TRUE
    /\ shutdown = NoneVal
    /\ started = StartTime
    /\ retry_count = DefaultRetryCount
    /\ attempt = 0
    /\ requests = <<>>
    /\ sleeps = <<>>
    /\ calls = 0
    /\ quote_result = NoneVal
    /\ lastOp = NoneVal
    /\ fmtIn = NoneVal
    /\ fmtOut = NoneVal

\* `stock-alerts add SYMBOL -c PATH`; exists: PATH names the file
add(arg, exists) ==
    LET symbol == upper(arg)
        watchlist == cfg.watchlist
    IN /\ pc = "cli"
       /\ IF ~exists
          THEN /\ cfg' = cfg
               /\ lastOp' = CliOp("add", arg, "not found", watchlist)
          ELSE IF Contains(watchlist, symbol)
          THEN /\ cfg' = cfg
               /\ lastOp' = CliOp("add", arg, "already", watchlist)
          ELSE /\ cfg' = [cfg EXCEPT !.watchlist = Append(watchlist, symbol)]
               /\ lastOp' = CliOp("add", arg, "added", watchlist)
       /\ UNCHANGED cliRest

\* `stock-alerts remove SYMBOL -c PATH`
remove(arg, exists) ==
    LET symbol == upper(arg)
        watchlist == cfg.watchlist
    IN /\ pc = "cli"
       /\ IF ~exists
          THEN /\ cfg' = cfg
               /\ lastOp' = CliOp("remove", arg, "not found", watchlist)
          ELSE IF ~Contains(watchlist, symbol)
          THEN /\ cfg' = cfg
               /\ lastOp' = CliOp("remove", arg, "not in", watchlist)
          ELSE /\ cfg' = [cfg EXCEPT !.watchlist = ListRemove(watchlist, symbol)]
               /\ lastOp' = CliOp("remove", arg, "removed", watchlist)
       /\ UNCHANGED cliRest

NextCli ==
    \/ \E arg \in CliSymbols, exists \in BOOLEAN : add(arg, exists)
    \/ \E arg \in CliSymbols, exists \in BOOLEAN : remove(arg, exists)

SpecCli == InitCli /\ [][NextCli]_vars

\* ================================================================= claims
\* notify calls of one kind
SentOf(kind) == {i \in DOMAIN sent : sent[i].kind = kind}

\* notify calls made since the latest cycle began
SentThisCycle == {i \in DOMAIN sent : sent[i].at >= cycleStart}

Count(seq, e) == Cardinality({i \in DOMAIN seq : seq[i] = e})

\* C1: over any sequence of monitoring cycles, at most one notification is
\* dispatched for one schedule rule on one calendar date.
C1_OncePerRuleAndDate ==
    \A i \in SentOf("schedule"), j \in SentOf("schedule") :
        (sent[i].rule = sent[j].rule /\ sent[i].key[2] = sent[j].key[2])
            => i = j

\* a second evaluation in the rule's minute has just skipped the rule that
\* an earlier cycle fired on this date
C1_Witness ==
    /\ cycles = 2
    /\ pc = "sched"
    /\ ruleIdx = 2
    /\ StrfHHMM(schedNow) = get_alert_schedule[1].time
    /\ \E i \in SentOf("schedule") :
          /\ sent[i].rule = 1
          /\ sent[i].key = ScheduleKey(get_alert_schedule[1].time, schedNow)
          /\ sent[i].at < cycleStart

\* C2: a symbol whose computed delta meets the threshold in two or more
\* evaluations of one calendar hour gets exactly one price alert in that
\* hour, and never a second one.
C2_OncePerSymbolAndHour ==
    /\ \A i \in SentOf("price"), j \in SentOf("price") :
          sent[i].key = sent[j].key => i = j
    /\ MeetsThreshold(lastEval.change)
          => Cardinality({i \in SentOf("price") : sent[i].key = lastEval.key}) = 1

\* the delta met the threshold again in an hour that already had its alert
C2_Witness ==
    /\ MeetsThreshold(lastEval.change)
    /\ lastEval.seen
    /\ \E i \in SentOf("price") :
          sent[i].key = lastEval.key /\ sent[i].at < lastEval.at

\* the quantities of claim C3, read off the store as it was after the persist
\* of the evaluated quote: the most recently persisted quote of the symbol and
\* the earliest one stamped at or after now - lookback
C3_Latest(e) ==
    e.rows[CHOOSE i \in RowsOf(e.rows, e.symbol) :
               \A j \in RowsOf(e.rows, e.symbol) : j <= i]

C3_InWindow(e) ==
    {i \in RowsOf(e.rows, e.symbol) :
        e.rows[i].timestamp >= e.at - get_price_alerts_config.check_interval * 60}

C3_Oldest(e) ==
    e.rows[CHOOSE i \in C3_InWindow(e) : \A j \in C3_InWindow(e) :
               \/ e.rows[i].timestamp < e.rows[j].timestamp
               \/ (e.rows[i].timestamp = e.rows[j].timestamp /\ i <= j)]

\* the percentage is defined
C3_Defined(e) ==
    /\ RowsOf(e.rows, e.symbol) # {}
    /\ C3_InWindow(e) # {}
    /\ C3_Oldest(e).price # 0

C3_AbsChange(e) ==
    Abs(RoundDiv((C3_Latest(e).price - C3_Oldest(e).price) * 10000,
                 C3_Oldest(e).price))

\* the case of claim C3: fetched, persisted, no key recorded for the hour
C3_Case(e) ==
    /\ e.symbol # ""
    /\ e.saved
    /\ ~e.recorded
    /\ C3_Defined(e)

C4_Excluded(t) ==
    /\ get_market_hours.only_during_market_hours
    /\ \/ Weekday(t) \in {5, 6}
       \/ SecondOfDay(t) < StrpTime(get_market_hours.open)
       \/ SecondOfDay(t) > StrpTime(get_market_hours.close)

\* C4: a cycle called at an excluded instant fetches, persists, dispatches
\* and cleans up nothing and leaves both dedup maps as they were: the call
\* is over at once and nothing carries a stamp of this cycle.
C4_GatedCycleIsNoOp ==
    (cycles > 0 /\ C4_Excluded(cycleStart))
        => /\ pc \in {"idle", "ready"}
           /\ events = <<>>
           /\ SentThisCycle = {}
           /\ \A i \in DOMAIN db : db[i].timestamp < cycleStart
           /\ \A k \in DOMAIN last_scheduled_alerts :
                 last_scheduled_alerts[k] < cycleStart
           /\ \A k \in DOMAIN last_price_alerts :
                 last_price_alerts[k] < cycleStart

\* a weekday cycle past the close, after an earlier cycle has fired a rule
C4_Witness ==
    /\ cycles = 2
    /\ pc = "idle"
    /\ C4_Excluded(cycleStart)
    /\ Weekday(cycleStart) < 5
    /\ DOMAIN last_scheduled_alerts # {}
    /\ sent # <<>>

\* C5: run_monitoring_cycle never propagates an exception: whatever was
\* raised inside, the call returns normally.
C5_CycleNeverRaises ==
    /\ cycleResult # "raised"
    /\ (pc = "idle" /\ cycles > 0) => cycleResult = "returned"

\* an exception was raised inside the cycle and the call returned
C5_Witness ==
    /\ pc = "idle"
    /\ caught
    /\ cycleResult = "returned"

\* a schedule rule fired in the cycle that has just ended
FiredThisCycle == pc = "idle" /\ cycles > 0 /\ messages # <<>>

\* the events of the firing: those before its dispatch, or all of them when
\* the firing never reached a dispatch
FiringEvents ==
    IF \E i \in DOMAIN events : events[i] = "notify"
    THEN SubSeq(events, 1,
                (CHOOSE i \in DOMAIN events :
                    /\ events[i] = "notify"
                    /\ \A j \in 1..(i - 1) : events[j] # "notify") - 1)
    ELSE events

\* line i of a notification text is the line of watchlist symbol i
C6_LineOf(text, i) ==
    \/ text[i + 1] = UnableLine(get_watchlist[i])
    \/ \E p \in Prices :
          text[i + 1] = format_stock_message(Quote(get_watchlist[i], p, 0),
                                             TRUE, cfg.notifications)

\* C6: when a schedule rule fires, exactly one notification is dispatched,
\* made of the rule's intro message and one line per watchlist symbol in
\* watchlist order, also when every fetch fails; a quote is persisted only
\* for a symbol whose fetch succeeded.
C6_FiringSendsOneFullNotification ==
    FiredThisCycle
        => /\ Cardinality(SentThisCycle \cap SentOf("schedule")) = 1
           /\ \A i \in SentThisCycle \cap SentOf("schedule") :
                 /\ sent[i].text[1] = get_alert_schedule[sent[i].rule].message
                 /\ Len(sent[i].text) = 1 + Len(get_watchlist)
                 /\ \A k \in 1..Len(get_watchlist) : C6_LineOf(sent[i].text, k)
                 /\ Count(FiringEvents, "save")
                       <= Cardinality({k \in 1..Len(get_watchlist) :
                              sent[i].text[k + 1] # UnableLine(get_watchlist[k])})

\* C7: one schedule firing over a watchlist of n symbols issues exactly n
\* fetches and exactly n - 1 inter-fetch delays.
C7_FiringFetchesAllWithDelaysBetween ==
    FiredThisCycle
        => /\ Count(FiringEvents, "fetch") = Len(get_watchlist)
           /\ Count(FiringEvents, "sleep") = Len(get_watchlist) - 1

\* the fetches and delays of the cycle, in order
FetchesAndSleeps == SelectSeq(events, LAMBDA e : e \in {"fetch", "sleep"})

\* C8: within one cycle any two consecutive quote fetches are separated by
\* an inter-fetch delay.
C8_NoBackToBackFetches ==
    \A i \in 1..(Len(FetchesAndSleeps) - 1) :
        ~(FetchesAndSleeps[i] = "fetch" /\ FetchesAndSleeps[i + 1] = "fetch")

\* C9: notify attempts every enabled channel on every call and never raises.
C9_NotifyAttemptsEveryEnabledChannel ==
    \A i \in DOMAIN sent :
        /\ sent[i].result.attempted = EnabledChannels
        /\ ~sent[i].result.raised

\* the SMS channel failed and the email channel was still attempted
C9_Witness ==
    \E i \in DOMAIN sent :
        /\ sent[i].result.outcome.sms = "error"
        /\ "email" \in sent[i].result.attempted
        /\ ~sent[i].result.raised

\* channels of a notify call whose send succeeded
Delivered(result) == {c \in result.attempted : result.outcome[c] = "ok"}

\* C10 as stated: notify returns the number of channels over which the
\* message was sent, an integer between 0 and the number of enabled channels.
C10_Original ==
    \A i \in DOMAIN sent :
        /\ sent[i].result.ret # NoneVal
        /\ sent[i].result.ret = Some(Cardinality(Delivered(sent[i].result)))

\* C10 as amended: notify returns None; the number of channels over which
\* the message was sent, between 0 and the number of enabled channels, is
\* only counted in sent_count and logged.
C10_CountIsLoggedNotReturned ==
    \A i \in DOMAIN sent :
        /\ sent[i].result.ret = NoneVal
        /\ sent[i].result.sent_count = Cardinality(Delivered(sent[i].result))
        /\ sent[i].result.sent_count \in 0..Cardinality(EnabledChannels)

\* one of two enabled channels failed: the count is 1
C10_Witness ==
    \E i \in DOMAIN sent :
        /\ Cardinality(sent[i].result.attempted) = 2
        /\ sent[i].result.sent_count = 1
        /\ sent[i].result.ret = NoneVal

\* a get_quote call has ended
CallEnded == pc = "client" /\ calls > 0

\* C11: get_quote never raises into the core: for every upstream outcome it
\* returns either a normalized quote or None.
C11_GetQuoteReturnsQuoteOrNone ==
    CallEnded => quote_result.ended = "returned"

\* the requests of the call that were answered "try again later"
TransientOnly == \A k \in DOMAIN requests : requests[k] \in Transient

\* C12: a hard API error ends the fetch at once with failure and no further
\* request; a rate-limit signal and a network failure are each followed by a
\* delay and another request as long as attempts remain.
C12_HardErrorEndsTransientRetries ==
    \A k \in DOMAIN requests :
        /\ requests[k] = "error_message"
              => /\ k = Len(requests)
                 /\ Len(sleeps) = k - 1
                 /\ CallEnded
                 /\ quote_result.ended = "returned"
                 /\ quote_result.value = NoneVal
        /\ (requests[k] \in Transient /\ k < retry_count)
              => /\ Len(sleeps) >= k
                 /\ sleeps[k] > 0
                 /\ \/ Len(requests) > k
                    \/ pc = "request" /\ attempt = k /\ attempt < retry_count

\* a rate-limit signal and then a network failure were each followed by a
\* delay and a further request, and the hard error that came third ended the
\* call with failure
C12_Witness ==
    /\ CallEnded
    /\ requests = <<"note", "network", "error_message">>
    /\ Len(sleeps) = 2
    /\ quote_result.value = NoneVal

\* C13: a get_quote call ends after at least one and at most N requests, N
\* the configured retry count; when every request fails transiently or is
\* rate-limited it returns failure after exactly N requests.
C13_BetweenOneAndNRequests ==
    /\ pc = "request" => (attempt = Len(requests) /\ attempt <= retry_count)
    /\ CallEnded
          => /\ Len(requests) >= 1
             /\ Len(requests) <= retry_count
             /\ TransientOnly
                   => /\ Len(requests) = retry_count
                      /\ quote_result.ended = "returned"
                      /\ quote_result.value = NoneVal

\* the same with a retry count of at least 1, where it holds
C13_HoldsForPositiveCount ==
    retry_count >= 1 => C13_BetweenOneAndNRequests

\* the latest store operation was `op`
Did(op) == lastOp # NoneVal /\ lastOp.op = op

\* C14: no Quote Store operation raises to its caller: a storage failure
\* yields the neutral value (False, None, None, 0) and a failed save or a
\* failed cleanup leaves the stored quotes unchanged.
C14_StoreNeverRaisesAndRollsBack ==
    lastOp # NoneVal
        => /\ ~lastOp.raised
           /\ (Did("save_quote") /\ ~lastOp.ok)
                 => (lastOp.ret = FALSE /\ db = lastOp.before)
           /\ (Did("get_latest_price") /\ ~lastOp.ok) => lastOp.ret = NoneVal
           /\ (Did("calculate_price_change") /\ ~lastOp.ok)
                 => lastOp.ret = NoneVal
           /\ (Did("cleanup_old_data") /\ ~lastOp.ok)
                 => (lastOp.ret = 0 /\ db = lastOp.before)

\* a save failed on a store that already held a quote
C14_Witness ==
    /\ Did("save_quote")
    /\ ~lastOp.ok
    /\ lastOp.ret = FALSE
    /\ lastOp.before # <<>>
    /\ db = lastOp.before

\* the cutoff of the latest cleanup
C15_Cutoff == lastOp.at - lastOp.args[1] * DaySeconds

C15_CountIn(rows, r) == Cardinality({i \in DOMAIN rows : rows[i] = r})

\* C15: after a successful cleanup_old_data(retention_days) the store holds
\* no quote older than now minus the retention window, every quote at or
\* newer than the cutoff is still there unmodified, and the returned count is
\* the number of quotes removed.
C15_CleanupKeepsExactlyTheWindow ==
    (Did("cleanup_old_data") /\ lastOp.ok)
        => /\ \A i \in DOMAIN db : ~(db[i].timestamp < C15_Cutoff)
           /\ \A i \in DOMAIN lastOp.before :
                 lastOp.before[i].timestamp >= C15_Cutoff
                    => C15_CountIn(db, lastOp.before[i])
                          = C15_CountIn(lastOp.before, lastOp.before[i])
           /\ \A i \in DOMAIN db : \E j \in DOMAIN lastOp.before :
                 db[i] = lastOp.before[j]
           /\ lastOp.ret = Len(lastOp.before) - Len(db)

\* a cleanup with a one-day window removed a quote older than the cutoff and
\* kept the quote stamped exactly at the cutoff
C15_Witness ==
    /\ Did("cleanup_old_data")
    /\ lastOp.ok
    /\ lastOp.args[1] = 1
    /\ lastOp.ret = 1
    /\ \E i \in DOMAIN db : db[i].timestamp = C15_Cutoff

\* cleanup_old_data calls the cycles made on calendar date d
CleanupsOn(d) == {i \in DOMAIN cleanupLog : Date(cleanupLog[i]) = d}

\* the driver entered its loop before midnight of date d, has not been told
\* to stop, and the first minute of d is over
RanAcrossMidnight(d) ==
    /\ started < d * DaySeconds
    /\ now >= d * DaySeconds + 60
    /\ shutdown = NoneVal

\* C16: with a database configured, retention cleanup is invoked exactly once
\* on each calendar day across whose midnight the driver runs: never twice on
\* one date, and on no date is it skipped.
C16_CleanupOncePerMidnight ==
    database
        => \A d \in (Date(started) + 1)..Date(now) :
              /\ Cardinality(CleanupsOn(d)) <= 1
              /\ RanAcrossMidnight(d) => Cardinality(CleanupsOn(d)) = 1

\* the signal arrived while a cycle was in flight
StoppedInFlight ==
    /\ shutdown # NoneVal
    /\ Value(shutdown).pc \notin BetweenCycles

\* C18: a shutdown signal received while a cycle is in flight does not
\* interrupt it: the cycle runs to completion, no further cycle is started
\* once the flag is false, and the loop then terminates.
C18_SignalLetsCycleFinishThenStops ==
    /\ [](StoppedInFlight
            => /\ cycles = Value(shutdown).cycles
               /\ pc \in BetweenCycles
                     => (pc # "ready" /\ cycleResult = "returned"
                         /\ cycleStart <= Value(shutdown).at))
    /\ (StoppedInFlight ~> pc = "stopped")

\* the signal arrived while the batch of a firing rule was being fetched; the
\* notification was still dispatched, and the loop has ended
C18_Witness ==
    /\ StoppedInFlight
    /\ Value(shutdown).pc = "send"
    /\ pc = "stopped"
    /\ cycleResult = "returned"
    /\ \E i \in DOMAIN sent : sent[i].at >= Value(shutdown).at

\* the change information as claim C17 words it: the sign, then the dollar
C17_Details(quote) ==
    " (" \o (IF quote.change >= 0 THEN "+" ELSE "-") \o "$"
         \o Fixed2(Abs(quote.change)) \o ", "
         \o (IF quote.change >= 0 THEN "+" ELSE "") \o quote.change_percent
         \o "%)"

\* a formatting with details and neither volume nor high/low appended
C17_Case ==
    /\ fmtOut # NoneVal
    /\ fmtIn.include_details
    /\ ~fmtIn.notifications_config.include_volume
    /\ ~fmtIn.notifications_config.include_day_high_low

\* C17: with details the sign comes before the dollar symbol and a negative
\* change gets no leading '+': {ABC, 10.5, -0.25, '-2.3'} formats to exactly
\* 'ABC: $10.50 (-$0.25, -2.3%)', and a change >= 0 gets '+' in front of
\* both the change and the change percent.
C17_SignBeforeDollar ==
    C17_Case
        => /\ Value(fmtOut) = fmtIn.quote.symbol \o ": $"
                 \o Fixed2(fmtIn.quote.price) \o C17_Details(fmtIn.quote)
           /\ (/\ fmtIn.quote.symbol = "ABC" /\ fmtIn.quote.price = 1050
               /\ fmtIn.quote.change = -25
               /\ fmtIn.quote.change_percent = "-2.3")
                 => Value(fmtOut) = "ABC: $10.50 (-$0.25, -2.3%)"

\* what the code makes of the quote of C17
C17_CodeOutput ==
    (/\ C17_Case
     /\ fmtIn.quote.symbol = "ABC" /\ fmtIn.quote.price = 1050
     /\ fmtIn.quote.change = -25 /\ fmtIn.quote.change_percent = "-2.3")
        => Value(fmtOut) = "ABC: $10.50 ($-0.25, -2.3%)"

\* for a change >= 0 the claim's format is the code's
C17_HoldsForNonNegativeChange ==
    (C17_Case /\ fmtIn.quote.change >= 0)
        => Value(fmtOut) = fmtIn.quote.symbol \o ": $"
              \o Fixed2(fmtIn.quote.price) \o C17_Details(fmtIn.quote)

\* C19: a schedule firing records its dedup key after the dispatch attempt
\* whether or not any channel delivered: the key of every dispatched batch
\* is recorded, and no batch is fetched or dispatched for a key that is.
C19_KeyRecordedWhateverDelivered ==
    /\ \A i \in SentOf("schedule") :
          sent[i].key \in DOMAIN last_scheduled_alerts
    /\ \A i \in SentOf("schedule"), j \in SentOf("schedule") :
          sent[i].key = sent[j].key => i = j
    /\ pc \in {"send", "send_notify"}
          => ~ScheduleSeen(ScheduleKey(get_alert_schedule[ruleIdx].time,
                                       schedNow))

\* an earlier cycle's notification went out over no channel; the rule's time
\* is evaluated again on the same date and the rule is passed over without
\* a fetch
C19_Witness ==
    /\ cycles = 2
    /\ pc = "sched"
    /\ ruleIdx = 2
    /\ events = <<>>
    /\ StrfHHMM(schedNow) = get_alert_schedule[1].time
    /\ \E i \in SentOf("schedule") :
          /\ sent[i].result.sent_count = 0
          /\ sent[i].at < cycleStart
          /\ sent[i].key = ScheduleKey(get_alert_schedule[1].time, schedNow)

\* rules whose time is the HH:MM of the schedule evaluation
C20_Matching ==
    {r \in DOMAIN get_alert_schedule :
        get_alert_schedule[r].time = StrfHHMM(schedNow)}

\* C20: when a schedule evaluation at HH:MM over a non-empty watchlist is
\* over, every rule whose time is HH:MM has had its own notification on the
\* current date, carrying its own intro message, also when several rules
\* have the same HH:MM.
C20_EachMatchingRuleNotified ==
    (pc = "price_start" /\ get_watchlist # <<>>)
        => \A r \in C20_Matching :
              \E i \in SentOf("schedule") :
                 /\ sent[i].rule = r
                 /\ sent[i].key[2] = Date(schedNow)
                 /\ sent[i].text[1] = get_alert_schedule[r].message

\* with one rule per HH:MM every matching rule is notified
C20_HoldsForDistinctTimes ==
    (\A r \in DOMAIN get_alert_schedule, q \in DOMAIN get_alert_schedule :
        get_alert_schedule[r].time = get_alert_schedule[q].time => r = q)
        => C20_EachMatchingRuleNotified

\* the rate-limit sleeps of the price-delta pass of this cycle: every sleep
\* of the cycle but those between the symbols of a fired rule's batch
PricePassSleeps ==
    Count(events, "sleep")
        - Cardinality(SentThisCycle \cap SentOf("schedule"))
              * (Len(get_watchlist) - 1)

\* check_price_change_alerts has gone through the whole watchlist
PricePassOver == pc = "cleanup" /\ ~PriceSkipped

\* C21: a price-delta pass over n watchlist symbols performs exactly n
\* inter-fetch delays: one after every symbol, the last one included, also
\* after a failed fetch, a delta without signal and a suppressed alert.
C21_OneDelayPerSymbol ==
    PricePassOver => PricePassSleeps = Len(get_watchlist)

\* the persisted quotes of the evaluated symbol, and those of them at or
\* after the lookback cutoff of the evaluation
C22_Persisted(e) == RowsOf(e.rows, e.symbol)

C22_InWindow(e) ==
    {i \in C22_Persisted(e) :
        e.rows[i].timestamp
            >= e.at - get_price_alerts_config.check_interval * 60}

\* the three cases without a signal
C22_NoQuote(e) == C22_Persisted(e) = {}

C22_NoQuoteInWindow(e) == C22_Persisted(e) # {} /\ C22_InWindow(e) = {}

C22_OldestIsZero(e) ==
    /\ C22_InWindow(e) # {}
    /\ \E i \in C22_InWindow(e) :
          /\ e.rows[i].price = 0
          /\ \A j \in C22_InWindow(e) :
                \/ e.rows[j].timestamp > e.rows[i].timestamp
                \/ (e.rows[j].timestamp = e.rows[i].timestamp /\ j >= i)

\* C22: calculate_price_change answers None when the symbol has no persisted
\* quote, none at or after the lookback cutoff, or an oldest in-window quote
\* of price 0; the evaluation then dispatches no alert and records no dedup
\* key for the symbol.
C22_NoSignalNoAlert ==
    (lastEval.symbol # ""
        /\ (C22_NoQuote(lastEval) \/ C22_NoQuoteInWindow(lastEval)
            \/ C22_OldestIsZero(lastEval)))
        => /\ lastEval.change = NoneVal
           /\ ~lastEval.alerted
           /\ \A i \in SentOf("price") :
                 ~(sent[i].key = lastEval.key /\ sent[i].at = lastEval.at)
           /\ PriceSeen(lastEval.key) => lastEval.recorded

\* the quote of this evaluation was not persisted and the symbol's only
\* persisted quote is older than the cutoff
C22_Witness ==
    /\ lastEval.symbol # ""
    /\ ~lastEval.saved
    /\ lastEval.queried
    /\ C22_NoQuoteInWindow(lastEval)
    /\ \E i \in C22_Persisted(lastEval) : lastEval.rows[i].price # 0
    /\ lastEval.change = NoneVal
    /\ pc \in {"price", "cleanup"}

\* the configurations claim C23 names
C23_RuleOffOrNoBackend == ~get_price_alerts_config.enabled \/ ~database

\* schedule notifications of the cycle in progress
C23_Firings == SentThisCycle \cap SentOf("schedule")

\* C23: with the price-alert rule disabled or no persistence backend, the
\* price-delta evaluation fetches, persists and dispatches nothing and
\* leaves the price dedup map as it was; the schedule evaluation of the same
\* cycle still fires its rule, and the fetches and persists of the cycle are
\* those of its firings alone.
C23_PriceCheckSkippedScheduleIntact ==
    C23_RuleOffOrNoBackend
        => /\ pc # "price"
           /\ lastEval = NoEval
           /\ SentOf("price") = {}
           /\ last_price_alerts = EmptyMap
           /\ pc = "cleanup"
                 => /\ Count(events, "fetch")
                          = Cardinality(C23_Firings) * Len(get_watchlist)
                    /\ Count(events, "save")
                          <= (IF database THEN Count(events, "fetch") ELSE 0)
                    /\ Count(events, "notify") = Cardinality(C23_Firings)
                    /\ (get_watchlist # <<>>
                        /\ \E r \in DOMAIN get_alert_schedule :
                              get_alert_schedule[r].time = StrfHHMM(schedNow))
                          => ScheduleSeen(<<StrfHHMM(schedNow), Date(schedNow)>>)

\* a cycle whose rule fired and whose price-delta evaluation was skipped
C23_Witness ==
    /\ C23_RuleOffOrNoBackend
    /\ get_watchlist # <<>>
    /\ pc = "cleanup"
    /\ C23_Firings # {}
    /\ Count(events, "fetch") = Len(get_watchlist)

\* C24: with an empty watchlist a cycle fetches and dispatches nothing and
\* records no key in either dedup map, also at a minute a schedule rule
\* names; no key of that rule being recorded, the test of alerts.py:130
\* still lets the rule through for the rest of the minute.
C24_EmptyWatchlistCycleIsInert ==
    get_watchlist = <<>>
        => /\ pc \notin {"sched", "send", "send_notify", "price"}
           /\ messages = <<>>
           /\ Count(events, "fetch") = 0
           /\ Count(events, "notify") = 0
           /\ sent = <<>>
           /\ db = <<>>
           /\ last_scheduled_alerts = EmptyMap
           /\ last_price_alerts = EmptyMap
           /\ \A r \in DOMAIN get_alert_schedule :
                 ~ScheduleSeen(ScheduleKey(get_alert_schedule[r].time, now))

\* a cycle over an empty watchlist has returned, in the minute of a rule
C24_Witness ==
    /\ get_watchlist = <<>>
    /\ pc = "idle"
    /\ cycles > 0
    /\ cycleResult = "returned"
    /\ \E r \in DOMAIN get_alert_schedule :
          /\ get_alert_schedule[r].time = StrfHHMM(cycleStart)
          /\ get_alert_schedule[r].time = StrfHHMM(now)

\* a step of the price-delta pass in which only the fetch happened: get_quote
\* gave no quote
C25_FetchFailed == pc = "price" /\ events' = Append(events, "fetch")

\* what claim C25 says of such a step
C25_SkipsOnlyItsSymbol ==
    /\ db' = db
    /\ last_price_alerts' = last_price_alerts
    /\ sent' = sent
    /\ symIdx' = symIdx + 1
    /\ pc' \in {"price", "cleanup"}
    /\ pc' = "cleanup" <=> symIdx' > Len(get_watchlist)

\* C25: in price-delta evaluation a fetch failure for one symbol persists no
\* quote, records no dedup key and dispatches nothing for it, and the pass
\* goes on with the next watchlist symbol.
C25_FetchFailureSkipsOnlyItsSymbol ==
    [][C25_FetchFailed => C25_SkipsOnlyItsSymbol]_vars

\* it does hold of a fetch that fails by returning None
C25_HoldsWhenGetQuoteReturnsNone ==
    [][(C25_FetchFailed /\ ~caught') => C25_SkipsOnlyItsSymbol]_vars

\* positions inside check_scheduled_alerts and _send_watchlist_alert
C26_InSchedule == {"sched", "send", "send_notify"}

\* the order of the steps of one cycle, as a relation between the position
\* before and after a step
C26_StepOrder ==
    /\ pc' \in C26_InSchedule => pc \in C26_InSchedule \cup {"ready"}
    /\ pc' = "price_start"
          => /\ pc \in {"ready", "sched"}
             /\ pc = "sched" => ruleIdx > Len(get_alert_schedule)
    /\ pc' = "price" => pc \in {"price_start", "price"}
    /\ pc' = "cleanup"
          => /\ pc \in {"price_start", "price"}
             /\ pc = "price" => symIdx' > Len(get_watchlist)
    /\ Count(events', "cleanup") > Count(events, "cleanup") => pc = "cleanup"

\* C26: in a cycle that is not gated, every fetch and dispatch of the
\* schedule rules is over before the first price-delta fetch, and retention
\* cleanup, when due, runs only once the price-delta evaluation is over and
\* is the last thing the cycle does.
C26_ScheduleThenPriceThenCleanup ==
    [][/\ C26_StepOrder
       /\ \A i \in DOMAIN events' :
             events'[i] = "cleanup" => i = Len(events')
       /\ pc' \in C26_InSchedule
             => (lastEval'.at < cycleStart' \/ lastEval' = NoEval)]_vars

\* a cycle fired a rule and then evaluated a price delta; the next cycle
\* evaluated a price delta and then ran the cleanup
C26_Witness ==
    /\ pc = "idle"
    /\ cycles = 2
    /\ \E i \in SentOf("schedule") : sent[i].at < cycleStart
    /\ \E i \in DOMAIN db : db[i].timestamp < cycleStart
    /\ lastEval.at >= cycleStart
    /\ events[Len(events)] = "cleanup"
    /\ cleanupLog = <<now>>
    /\ lastEval.at < now

\* C27: without a shutdown signal the driver never leaves its loop and keeps
\* starting cycles: after any number of cycles, and after a cycle in which an
\* exception was raised, a further cycle is started.
C27_DriverKeepsCycling ==
    /\ [](pc = "stopped" => shutdown # NoneVal)
    /\ \A k \in 0..(MaxCycles - 1) :
          (cycles = k) ~> (cycles = k + 1 \/ shutdown # NoneVal)
    /\ \A k \in 1..(MaxCycles - 1) :
          (cycles = k /\ caught /\ pc = "idle")
              ~> ((cycles = k + 1 /\ cycleStart >= now) \/ shutdown # NoneVal)

\* the first cycle fired a rule and was aborted by an exception before the
\* dispatch; no signal came, and the second cycle has been started
C27_Witness ==
    /\ shutdown = NoneVal
    /\ cycles = 2
    /\ cycleStart >= started + LoopSleepSeconds
    /\ faults = 1
    /\ sent = <<>>
    /\ get_watchlist # <<>>
    /\ ~Gated(started)
    /\ \E r \in DOMAIN get_alert_schedule :
          get_alert_schedule[r].time = StrfHHMM(started)

\* a step that starts a cycle which is not the first
C28_NextCycleStarts == cycles > 0 /\ cycles' = cycles + 1

\* C28: the starts of two successive cycles are always the driver's interval
\* of 60 seconds apart, however long the first of them took.
C28_FixedIntervalBetweenStarts ==
    [][C28_NextCycleStarts
          => cycleStart' = cycleStart + LoopSleepSeconds]_vars

\* what the loop does keep: the interval passes between the end of a cycle
\* and the start of the next, so the starts are at least 60 seconds apart
C28_IntervalAfterCycleEnd ==
    [][C28_NextCycleStarts
          => /\ cycleStart' = now
             /\ cycleStart' >= cycleStart + LoopSleepSeconds
             /\ cycleStart' = cycleStart + LoopSleepSeconds
                                + api_delay * Count(events, "sleep")]_vars

\* the first second of the minute rule r names on date d
C29_MinuteStart(r, d) == d * DaySeconds + StrpTime(get_alert_schedule[r].time)

\* the driver was in its loop before the minute began, the minute is over
\* and no shutdown signal has come
C29_RanThroughout(r, d) ==
    /\ started <= C29_MinuteStart(r, d)
    /\ now >= C29_MinuteStart(r, d) + 60
    /\ shutdown = NoneVal

\* no second of the minute is excluded by the market-hours gate
C29_NotExcluded(r, d) ==
    /\ ~Gated(C29_MinuteStart(r, d))
    /\ ~Gated(C29_MinuteStart(r, d) + 59)

\* C29: when the driver runs throughout the minute of a schedule rule on
\* some date, over a non-empty watchlist and with the minute not excluded
\* by the gate, a notification for the rule's time is dispatched on that
\* date (stated for runs in which no fetch, persist or send failed).
C29_NoRuleMinuteIsMissed ==
    (get_watchlist # <<>> /\ faults = 0)
        => \A r \in DOMAIN get_alert_schedule :
           \A d \in Date(started)..Date(now) :
              (C29_RanThroughout(r, d) /\ C29_NotExcluded(r, d))
                  => \E i \in SentOf("schedule") :
                        sent[i].key = ScheduleKey(get_alert_schedule[r].time,
                                                  C29_MinuteStart(r, d))

\* a weekday instant whose HH:MM is the configured open or close time, with
\* gating enabled
C30_AtWindowEdge(t) ==
    /\ get_market_hours.only_during_market_hours
    /\ Weekday(t) < WeekendStart
    /\ StrfHHMM(t) \in {get_market_hours.open, get_market_hours.close}

\* C30: with gating enabled the window is inclusive at both ends at minute
\* granularity: a weekday cycle started at any instant of the open or the
\* close minute is let through by the gate, and once it is over a rule set
\* to that minute has its key recorded for the date.
C30_WindowInclusiveAtMinute ==
    (cycles > 0 /\ C30_AtWindowEdge(cycleStart))
        => /\ ~Gated(cycleStart)
           /\ (pc = "idle" /\ ~caught /\ get_watchlist # <<>>
               /\ \E r \in DOMAIN get_alert_schedule :
                     get_alert_schedule[r].time = StrfHHMM(cycleStart))
                 => ScheduleSeen(<<StrfHHMM(cycleStart), Date(cycleStart)>>)

\* at the first second of the close minute the cycle is evaluated
C30_HoldsAtFirstSecond ==
    SecondOfDay(cycleStart) % 60 = 0 => C30_WindowInclusiveAtMinute

\* the price the reported percentage stands for when the fetched quote is the
\* latest price: from the oldest in-window quote to the fetched one
C31_ChangeToFetched(e) ==
    RoundDiv((e.price - C3_Oldest(e).price) * PercentScale * (10 ^ RoundDigits),
             C3_Oldest(e).price)

\* C31: whenever a price alert is dispatched, the direction and magnitude it
\* reports were computed with the price of the quote fetched in the same
\* evaluation step as the latest price, so they agree with the quote in the
\* message; a failed persist of that quote never leads to an alert computed
\* from an older stored quote.
C31_AlertComputedFromFetchedQuote ==
    lastEval.alerted
        => /\ lastEval.saved
           /\ C3_Defined(lastEval)
           /\ Value(lastEval.change) = C31_ChangeToFetched(lastEval)

\* when the fetched quote was persisted, the alert is computed from it
C31_HoldsWhenPersisted ==
    (lastEval.alerted /\ lastEval.saved)
        => /\ C3_Defined(lastEval)
           /\ Value(lastEval.change) = C31_ChangeToFetched(lastEval)

\* an alert for the evaluated symbol was dispatched earlier in the calendar
\* hour of the evaluation
C32_AlertedThisHour(e) ==
    \E i \in SentOf("price") :
       /\ sent[i].key[1] = e.symbol
       /\ Date(sent[i].at) = Date(e.at)
       /\ Hour(sent[i].at) = Hour(e.at)
       /\ sent[i].at < e.at

\* rule times that are the HH:MM of the schedule evaluation
C32_MatchingTimes ==
    {get_alert_schedule[r].time : r \in C20_Matching}

\* C32: price-alert dedup is exactly per symbol and calendar hour: a delta
\* that meets the threshold is suppressed if and only if an alert for the
\* same symbol went out earlier in the same calendar hour, so neither another
\* symbol's alert nor an alert of an earlier hour suppresses it; and a rule
\* time evaluated on a date is notified on that date whatever was fired on
\* earlier dates.
C32_DedupPerSymbolHourAndDate ==
    /\ (lastEval.symbol # "" /\ MeetsThreshold(lastEval.change))
          => /\ lastEval.seen <=> C32_AlertedThisHour(lastEval)
             /\ lastEval.alerted <=> ~C32_AlertedThisHour(lastEval)
    /\ (pc = "price_start" /\ get_watchlist # <<>>)
          => \A time \in C32_MatchingTimes :
                \E i \in SentOf("schedule") :
                   sent[i].key = <<time, Date(schedNow)>>

\* a day after a rule fired and the symbol's alert went out, in the same hour
\* of the day, both have gone out again
C32_Witness ==
    /\ \E i \in SentOf("schedule"), j \in SentOf("schedule") :
          /\ sent[i].key[1] = sent[j].key[1]
          /\ sent[i].key[2] < sent[j].key[2]
    /\ \E i \in SentOf("price"), j \in SentOf("price") :
          /\ sent[i].key[1] = sent[j].key[1]
          /\ Hour(sent[i].at) = Hour(sent[j].at)
          /\ Date(sent[i].at) < Date(sent[j].at)
    /\ lastEval.alerted

\* every entry of map is still in map2, with its value
C33_Kept(map, map2) ==
    \A k \in DOMAIN map : k \in DOMAIN map2 /\ map2[k] = map[k]

\* every key of the two maps has a notify call made for it, not later than
\* the state looked at
C33_EveryKeyWasDispatched ==
    /\ \A k \in DOMAIN last_scheduled_alerts :
          \E i \in SentOf("schedule") :
             sent[i].key = k /\ last_scheduled_alerts[k] <= sent[i].at
    /\ \A k \in DOMAIN last_price_alerts :
          \E i \in SentOf("price") :
             sent[i].key = k /\ last_price_alerts[k] = sent[i].at

\* C33: in every reachable state each key of either dedup map has had its
\* notification dispatch attempted, and a key once recorded is never removed
\* or overwritten.
C33_KeysDispatchedAndNeverEvicted ==
    [][/\ C33_EveryKeyWasDispatched'
       /\ C33_Kept(last_scheduled_alerts, last_scheduled_alerts')
       /\ C33_Kept(last_price_alerts, last_price_alerts')]_vars

\* a schedule key recorded by the first cycle is still there, with its value,
\* after a second cycle that recorded a price key
C33_Witness ==
    /\ pc = "idle"
    /\ cycles = 2
    /\ \E k \in DOMAIN last_scheduled_alerts :
          last_scheduled_alerts[k] < cycleStart
    /\ \E k \in DOMAIN last_price_alerts :
          last_price_alerts[k] >= cycleStart

\* ---- C34
\* no two entries of a watchlist are the same ticker in any case
C34_UniqueIgnoringCase(w) ==
    \A i, j \in DOMAIN w : i # j => upper(w[i]) # upper(w[j])

\* the ticker is in the watchlist in some case
C34_Present(w, symbol) == \E i \in DOMAIN w : upper(w[i]) = upper(symbol)

\* the symbols of w that are left in w2 stand in w2 in the order of w
C34_OrderKept(w, w2) ==
    LET InW2(x) == Contains(w2, x)
        InW(x) == Contains(w, x)
    IN SelectSeq(w, InW2) = SelectSeq(w2, InW)

\* what the claim says of one command
C34_Step ==
    /\ C34_UniqueIgnoringCase(cfg'.watchlist)
    /\ C34_OrderKept(cfg.watchlist, cfg'.watchlist)
    /\ (lastOp'.op = "add" /\ C34_Present(cfg.watchlist, lastOp'.symbol))
          => cfg' = cfg
    /\ (lastOp'.op = "remove" /\ ~C34_Present(cfg.watchlist, lastOp'.symbol))
          => cfg' = cfg

\* C34: from a watchlist whose symbols are unique by case-insensitive
\* comparison, every add and every remove leaves them unique by that
\* comparison and the remaining symbols in their order, and an add of a
\* symbol already present, or a remove of one not present, leaves the
\* configuration as it was.
C34_AddRemoveKeepWatchlistUnique == [][C34_Step]_vars

\* the same holds of every command applied to a watchlist written in upper
\* case, where the comparison of line 43 cannot miss
C34_HoldsForUpperCaseWatchlists ==
    [][(\A i \in DOMAIN cfg.watchlist :
            cfg.watchlist[i] = upper(cfg.watchlist[i])) => C34_Step]_vars

====
